---- MODULE Spec2Model ----
(***************************************************************************)
(* Model of the zenoh declaration codec (zenoh-codec network/declare.rs)   *)
(* and of the accept side of the unicast Init stage (zenoh-transport       *)
(* unicast/establishment/accept/init_syn.rs).                              *)
(*                                                                         *)
(* A buffer is a sequence of bytes (0..255).  A reader is a buffer and the *)
(* number of bytes already consumed.  Every read returns a record          *)
(*   [ok, val, pos]   ok = FALSE is Err(DidntRead); pos = bytes consumed.  *)
(***************************************************************************)
EXTENDS Integers, Sequences, FiniteSets, TLC

VARIABLES
    msg,      \* the value handed to the writer, or NoMsg
    craft,    \* the structure of a peer-built buffer, or NoCraft
    buf,      \* the bytes in the buffer
    dec,      \* the decoder applied to buf
    res,      \* what the decoder returned
    cut,      \* how many bytes of buf the reader's input held
    pc,       \* "init" | "written" | "read" | "read_truncated"
    version,  \* manager.config.version
    wire,     \* per link: what the next read_transport_message() yields
    stage,    \* per link: "AwaitInitSyn" | "Output" | "Rejected"
    rx,       \* per link: what recv read
    ret,      \* per link: what recv returned
    reads     \* per link: number of link reads performed

vars == <<msg, craft, buf, dec, res, cut, pc, version, wire, stage, rx, ret, reads>>
codecVars == <<msg, craft, buf, dec, res, cut, pc>>
acceptVars == <<version, wire, stage, rx, ret, reads>>

(***************************************************************************)
(* Bounds                                                                  *)
(***************************************************************************)
MaxExts == 2      \* longest extension chain a peer-built buffer carries
MaxBatch == 2     \* most messages one link read yields

(***************************************************************************)
(* zenoh-protocol constants                                                *)
(***************************************************************************)
D_KEYEXPR == 1
U_KEYEXPR == 2
D_SUBSCRIBER == 3
U_SUBSCRIBER == 4
D_QUERYABLE == 5
U_QUERYABLE == 6
D_TOKEN == 7
U_TOKEN == 8
DECLARE == 31

HEADER_BITS == 32        \* imsg: the low five bits hold the message id
declare_flag_Z == 128       \* declare::flag::Z, 1 << 7
keyexpr_flag_N == 32        \* keyexpr::flag::N, 1 << 5
keyexpr_flag_Z == 128       \* keyexpr::flag::Z
subscriber_flag_N == 32     \* subscriber::flag::N
subscriber_flag_M == 64     \* subscriber::flag::M, 1 << 6
subscriber_flag_Z == 128    \* subscriber::flag::Z
queryable_flag_N == 32      \* queryable::flag::N
queryable_flag_M == 64      \* queryable::flag::M
queryable_flag_Z == 128     \* queryable::flag::Z
token_flag_N == 32          \* token::flag::N
token_flag_M == 64          \* token::flag::M
token_flag_Z == 128         \* token::flag::Z

EXT_ID_BITS == 16        \* iext: the low four bits hold the extension id
EXT_FLAG_M == 16         \* iext::FLAG_M, mandatory to understand
ENC_UNIT == 0            \* iext::ENC_UNIT
ENC_Z64 == 32            \* iext::ENC_Z64
ENC_ZBUF == 64           \* iext::ENC_ZBUF
EXT_FLAG_Z == 128        \* iext::FLAG_Z, another extension follows

QoS_ID == 1              \* declare::ext::QoS::ID
Timestamp_ID == 2        \* declare::ext::Timestamp::ID
SubInfo_ID == 1          \* subscriber::ext::Info::ID
QueryInfo_ID == 1        \* queryable::ext::Info::ID
QoSDefault == 5          \* QoSType::default(), priority Data

MappingDefault == "Receiver"     \* Mapping::default()
SubscriberInfoDefault == [reliability |-> "BestEffort", mode |-> "Push"]
QueryableInfoDefault == [complete |-> 0, distance |-> 0]
NoTimestamp == <<>>              \* Option::None; Some(t) is <<t>>

(***************************************************************************)
(* Header bits                                                             *)
(***************************************************************************)
HasFlag(h, f) == (h \div f) % 2 = 1          \* imsg::has_flag, f a single bit
SetFlag(h, f) == IF HasFlag(h, f) THEN h ELSE h + f      \* header |= f
Mid(h) == h % HEADER_BITS                     \* imsg::mid
Eid(e) == e % EXT_ID_BITS                     \* iext::eid
Enc(e) == ((e \div ENC_Z64) % 4) * ENC_Z64      \* header & iext::ENC_MASK

(***************************************************************************)
(* Reader results                                                          *)
(***************************************************************************)
NoVal == [kind |-> "DidntRead"]
Ok(v, p) == [ok |-> TRUE, val |-> v, pos |-> p]
Err(p) == [ok |-> FALSE, val |-> NoVal, pos |-> p]

\* the ? operator: an Err ends the read, an Ok goes on with what follows
Try(r, K(_)) == IF ~r.ok THEN Err(r.pos) ELSE K(r)

\* RCodec<u8>: one byte
ReadU8(b, p) == IF p < Len(b) THEN Ok(b[p + 1], p + 1) ELSE Err(p)

\* WCodec<u64>: variable-length integer, seven bits per byte, low bits first
RECURSIVE WriteZInt(_)
WriteZInt(n) ==
    IF n < 128 THEN <<n>> ELSE <<128 + (n % 128)>> \o WriteZInt(n \div 128)

RECURSIVE ReadZIntFrom(_, _, _, _)
ReadZIntFrom(b, p, acc, mult) ==
    IF p >= Len(b) THEN Err(p)
    ELSE IF b[p + 1] < 128 THEN Ok(acc + b[p + 1] * mult, p + 1)
    ELSE ReadZIntFrom(b, p + 1, acc + (b[p + 1] - 128) * mult, mult * 128)

\* RCodec<u64>
ReadZInt(b, p) == ReadZIntFrom(b, p, 0, 1)

\* WCodec<&str>: length, then the bytes
WriteString(s) == WriteZInt(Len(s)) \o s

\* RCodec<String>
ReadString(b, p) ==
    Try(ReadZInt(b, p), LAMBDA n :
        IF n.pos + n.val > Len(b) THEN Err(n.pos)
        ELSE Ok(SubSeq(b, n.pos + 1, n.pos + n.val), n.pos + n.val))

(***************************************************************************)
(* Wire expression: [scope, suffix]                                        *)
(***************************************************************************)
HasSuffix(we) == Len(we.suffix) > 0           \* WireExpr::has_suffix

\* WCodec<&WireExpr>
WriteWireExpr(we) ==
    WriteZInt(we.scope) \o (IF HasSuffix(we) THEN WriteString(we.suffix) ELSE <<>>)

\* RCodec<WireExpr> for Zenoh080Condition
ReadWireExpr(cond, b, p) ==
    Try(ReadZInt(b, p), LAMBDA s :
        IF ~cond THEN Ok([scope |-> s.val, suffix |-> <<>>], s.pos)
        ELSE Try(ReadString(b, s.pos), LAMBDA t :
                 Ok([scope |-> s.val, suffix |-> t.val], t.pos)))

(***************************************************************************)
(* Extensions                                                              *)
(***************************************************************************)
\* WCodec<(&ZExtZ64<ID>, bool)>: header, then the value
WriteZExtZ64(id, value, more) ==
    <<id + ENC_Z64 + (IF more THEN EXT_FLAG_Z ELSE 0)>> \o WriteZInt(value)

\* RCodec<(ZExtZ64<ID>, bool)> for Zenoh080Header: val = [value, more]
ReadZExtZ64(id, h, b, p) ==
    IF Eid(h) # id \/ Enc(h) # ENC_Z64 THEN Err(p)
    ELSE Try(ReadZInt(b, p), LAMBDA v :
             Ok([value |-> v.val, more |-> HasFlag(h, EXT_FLAG_Z)], v.pos))

\* RCodec<(ZExtUnknown, bool)> for Zenoh080Header: the body, by its encoding
ReadZExtUnknown(h, b, p) ==
    IF Enc(h) = ENC_UNIT THEN Ok(HasFlag(h, EXT_FLAG_Z), p)
    ELSE IF Enc(h) = ENC_Z64
    THEN Try(ReadZInt(b, p), LAMBDA v : Ok(HasFlag(h, EXT_FLAG_Z), v.pos))
    ELSE IF Enc(h) = ENC_ZBUF
    THEN Try(ReadString(b, p), LAMBDA v : Ok(HasFlag(h, EXT_FLAG_Z), v.pos))
    ELSE Err(p)

\* extension::skip: consume one unknown extension; val = has_ext.
\* An unknown extension that is mandatory to understand fails the read.
skip(h, b, p) ==
    Try(ReadZExtUnknown(h, b, p), LAMBDA u :
        IF HasFlag(h, EXT_FLAG_M) THEN Err(u.pos) ELSE Ok(u.val, u.pos))

\* extension::skip_all: skip until an extension says no other follows
RECURSIVE skip_all(_, _)
skip_all(b, p) ==
    Try(ReadU8(b, p), LAMBDA h :
        Try(skip(h.val, b, h.pos), LAMBDA s :
            IF s.val THEN skip_all(b, s.pos) ELSE Ok(TRUE, s.pos)))

\* From<SubscriberInfo> for ZExtZ64: bit 0 reliable, bit 1 pull
SubscriberInfoToZ64(i) ==
    (IF i.reliability = "Reliable" THEN 1 ELSE 0) + (IF i.mode = "Pull" THEN 2 ELSE 0)

\* From<ZExtZ64> for SubscriberInfo
SubscriberInfoFromZ64(v) ==
    [reliability |-> IF HasFlag(v, 1) THEN "Reliable" ELSE "BestEffort",
     mode |-> IF HasFlag(v, 2) THEN "Pull" ELSE "Push"]

\* From<QueryableInfo> for ZExtZ64: complete in the low byte, distance above
QueryableInfoToZ64(i) == i.complete + i.distance * 256

\* From<ZExtZ64> for QueryableInfo
QueryableInfoFromZ64(v) == [complete |-> v % 256, distance |-> v \div 256]

\* From<QoSType> for ZExtZ64 and back: the inner byte
QoSToZ64(q) == q
QoSFromZ64(v) == v % 256

(***************************************************************************)
(* Declaration bodies.  A value is a record tagged with its kind:          *)
(*   DeclareKeyExpr      [kind, id, wire_expr]                             *)
(*   DeclareSubscriber   [kind, id, wire_expr, mapping, ext_info]          *)
(*   DeclareQueryable    [kind, id, wire_expr, mapping, ext_info]          *)
(*   DeclareToken        [kind, id, wire_expr, mapping]                    *)
(*   Undeclare*          [kind, id]                                        *)
(***************************************************************************)

\* WCodec<&keyexpr::DeclareKeyExpr>
WriteDeclareKeyExpr(x) ==
    LET header == IF HasSuffix(x.wire_expr) THEN SetFlag(D_KEYEXPR, keyexpr_flag_N)
                  ELSE D_KEYEXPR
    IN <<header>> \o WriteZInt(x.id) \o WriteWireExpr(x.wire_expr)

\* ReadDeclareKeyExprH returning without looking at the extensions Z announces
ReadDeclareKeyExprH_IgnoreZ(h, b, p) ==
    IF Mid(h) # D_KEYEXPR THEN Err(p)
    ELSE Try(ReadZInt(b, p), LAMBDA id :
         Try(ReadWireExpr(HasFlag(h, keyexpr_flag_N), b, id.pos), LAMBDA we :
             Ok([kind |-> "DeclareKeyExpr", id |-> id.val, wire_expr |-> we.val],
                we.pos)))

\* RCodec<keyexpr::DeclareKeyExpr> for Zenoh080Header
ReadDeclareKeyExprH(h, b, p) ==
    IF Mid(h) # D_KEYEXPR THEN Err(p)
    ELSE Try(ReadZInt(b, p), LAMBDA id :
         Try(ReadWireExpr(HasFlag(h, keyexpr_flag_N), b, id.pos), LAMBDA we :
         Try(IF HasFlag(h, keyexpr_flag_Z) THEN skip_all(b, we.pos) ELSE Ok(FALSE, we.pos),
             LAMBDA s :
             Ok([kind |-> "DeclareKeyExpr", id |-> id.val, wire_expr |-> we.val],
                s.pos))))

\* WCodec of the four Undeclare* kinds: the header is the bare type id
WriteUndeclare(mid, x) == <<mid>> \o WriteZInt(x.id)

\* WCodec<&keyexpr::UndeclareKeyExpr>
WriteUndeclareKeyExpr(x) == WriteUndeclare(U_KEYEXPR, x)
\* WCodec<&subscriber::UndeclareSubscriber>
WriteUndeclareSubscriber(x) == WriteUndeclare(U_SUBSCRIBER, x)
\* WCodec<&queryable::UndeclareQueryable>
WriteUndeclareQueryable(x) == WriteUndeclare(U_QUERYABLE, x)
\* WCodec<&token::UndeclareToken>
WriteUndeclareToken(x) == WriteUndeclare(U_TOKEN, x)

\* ReadUndeclareH skipping one extension where the chain may hold several
ReadUndeclareH_SkipOne(mid, kind, flag_Z, h, b, p) ==
    IF Mid(h) # mid THEN Err(p)
    ELSE Try(ReadZInt(b, p), LAMBDA id :
         Try(IF HasFlag(h, flag_Z)
             THEN Try(ReadU8(b, id.pos), LAMBDA e : skip(e.val, b, e.pos))
             ELSE Ok(FALSE, id.pos),
             LAMBDA s : Ok([kind |-> kind, id |-> id.val], s.pos)))

\* RCodec of the four Undeclare* kinds for Zenoh080Header
ReadUndeclareH(mid, kind, flag_Z, h, b, p) ==
    IF Mid(h) # mid THEN Err(p)
    ELSE Try(ReadZInt(b, p), LAMBDA id :
         Try(IF HasFlag(h, flag_Z) THEN skip_all(b, id.pos) ELSE Ok(FALSE, id.pos),
             LAMBDA s : Ok([kind |-> kind, id |-> id.val], s.pos)))

ReadUndeclareKeyExprH(h, b, p) ==
    ReadUndeclareH(U_KEYEXPR, "UndeclareKeyExpr", keyexpr_flag_Z, h, b, p)
ReadUndeclareSubscriberH(h, b, p) ==
    ReadUndeclareH(U_SUBSCRIBER, "UndeclareSubscriber", subscriber_flag_Z, h, b, p)
ReadUndeclareQueryableH(h, b, p) ==
    ReadUndeclareH(U_QUERYABLE, "UndeclareQueryable", queryable_flag_Z, h, b, p)
ReadUndeclareTokenH(h, b, p) ==
    ReadUndeclareH(U_TOKEN, "UndeclareToken", token_flag_Z, h, b, p)

\* WCodec<&subscriber::DeclareSubscriber>
WriteDeclareSubscriber(x) ==
    LET n_exts == IF x.ext_info # SubscriberInfoDefault THEN 1 ELSE 0
        h0 == D_SUBSCRIBER
        h1 == IF n_exts # 0 THEN SetFlag(h0, subscriber_flag_Z) ELSE h0
        h2 == IF x.mapping # MappingDefault THEN SetFlag(h1, subscriber_flag_M) ELSE h1
        h3 == IF HasSuffix(x.wire_expr) THEN SetFlag(h2, subscriber_flag_N) ELSE h2
    IN <<h3>> \o WriteZInt(x.id) \o WriteWireExpr(x.wire_expr)
       \o (IF x.ext_info # SubscriberInfoDefault
           THEN WriteZExtZ64(SubInfo_ID, SubscriberInfoToZ64(x.ext_info), n_exts - 1 # 0)
           ELSE <<>>)

\* ReadSubscriberExts keeping the first SubscriberInfo it decoded
RECURSIVE ReadSubscriberExts_FirstWins(_, _, _)
ReadSubscriberExts_FirstWins(b, p, ext_info) ==
    Try(ReadU8(b, p), LAMBDA e :
        IF Eid(e.val) = SubInfo_ID
        THEN Try(ReadZExtZ64(SubInfo_ID, e.val, b, e.pos), LAMBDA r :
                 IF r.val.more
                 THEN ReadSubscriberExts_FirstWins(b, r.pos,
                          IF ext_info # SubscriberInfoDefault THEN ext_info
                          ELSE SubscriberInfoFromZ64(r.val.value))
                 ELSE Ok(IF ext_info # SubscriberInfoDefault THEN ext_info
                         ELSE SubscriberInfoFromZ64(r.val.value), r.pos))
        ELSE Try(skip(e.val, b, e.pos), LAMBDA s :
                 IF s.val THEN ReadSubscriberExts_FirstWins(b, s.pos, ext_info)
                 ELSE Ok(ext_info, s.pos)))

\* ReadSubscriberExts leaving the loop after an unknown extension, whatever
\* skip said follows
RECURSIVE ReadSubscriberExts_StopAfterUnknown(_, _, _)
ReadSubscriberExts_StopAfterUnknown(b, p, ext_info) ==
    Try(ReadU8(b, p), LAMBDA e :
        IF Eid(e.val) = SubInfo_ID
        THEN Try(ReadZExtZ64(SubInfo_ID, e.val, b, e.pos), LAMBDA r :
                 IF r.val.more
                 THEN ReadSubscriberExts_StopAfterUnknown(b, r.pos,
                          SubscriberInfoFromZ64(r.val.value))
                 ELSE Ok(SubscriberInfoFromZ64(r.val.value), r.pos))
        ELSE Try(skip(e.val, b, e.pos), LAMBDA s : Ok(ext_info, s.pos)))

\* the while has_ext loop of the DeclareSubscriber reader, entered with has_ext true
RECURSIVE ReadSubscriberExts(_, _, _)
ReadSubscriberExts(b, p, ext_info) ==
    Try(ReadU8(b, p), LAMBDA e :
        IF Eid(e.val) = SubInfo_ID
        THEN Try(ReadZExtZ64(SubInfo_ID, e.val, b, e.pos), LAMBDA r :
                 IF r.val.more
                 THEN ReadSubscriberExts(b, r.pos, SubscriberInfoFromZ64(r.val.value))
                 ELSE Ok(SubscriberInfoFromZ64(r.val.value), r.pos))
        ELSE Try(skip(e.val, b, e.pos), LAMBDA s :
                 IF s.val THEN ReadSubscriberExts(b, s.pos, ext_info)
                 ELSE Ok(ext_info, s.pos)))

\* ReadDeclareSubscriberH without the check of the header's type id
ReadDeclareSubscriberH_NoMidCheck(h, b, p) ==
    Try(ReadZInt(b, p), LAMBDA id :
    Try(ReadWireExpr(HasFlag(h, subscriber_flag_N), b, id.pos), LAMBDA we :
    Try(IF HasFlag(h, subscriber_flag_Z)
        THEN ReadSubscriberExts(b, we.pos, SubscriberInfoDefault)
        ELSE Ok(SubscriberInfoDefault, we.pos),
        LAMBDA ext :
        Ok([kind |-> "DeclareSubscriber", id |-> id.val, wire_expr |-> we.val,
            mapping |-> IF HasFlag(h, subscriber_flag_M) THEN "Sender" ELSE "Receiver",
            ext_info |-> ext.val], ext.pos))))

\* RCodec<subscriber::DeclareSubscriber> for Zenoh080Header
ReadDeclareSubscriberH(h, b, p) ==
    IF Mid(h) # D_SUBSCRIBER THEN Err(p)
    ELSE Try(ReadZInt(b, p), LAMBDA id :
         Try(ReadWireExpr(HasFlag(h, subscriber_flag_N), b, id.pos), LAMBDA we :
         Try(IF HasFlag(h, subscriber_flag_Z)
             THEN ReadSubscriberExts(b, we.pos, SubscriberInfoDefault)
             ELSE Ok(SubscriberInfoDefault, we.pos),
             LAMBDA ext :
             Ok([kind |-> "DeclareSubscriber", id |-> id.val, wire_expr |-> we.val,
                 mapping |-> IF HasFlag(h, subscriber_flag_M) THEN "Sender" ELSE "Receiver",
                 ext_info |-> ext.val], ext.pos))))

\* WriteDeclareQueryable that never sets flag M
WriteDeclareQueryable_NoM(x) ==
    LET n_exts == IF x.ext_info # QueryableInfoDefault THEN 1 ELSE 0
        h0 == D_QUERYABLE
        h1 == IF n_exts # 0 THEN SetFlag(h0, subscriber_flag_Z) ELSE h0
        h3 == IF HasSuffix(x.wire_expr) THEN SetFlag(h1, subscriber_flag_N) ELSE h1
    IN <<h3>> \o WriteZInt(x.id) \o WriteWireExpr(x.wire_expr)
       \o (IF x.ext_info # QueryableInfoDefault
           THEN WriteZExtZ64(QueryInfo_ID, QueryableInfoToZ64(x.ext_info), n_exts - 1 # 0)
           ELSE <<>>)

\* WCodec<&queryable::DeclareQueryable>
WriteDeclareQueryable(x) ==
    LET n_exts == IF x.ext_info # QueryableInfoDefault THEN 1 ELSE 0
        h0 == D_QUERYABLE
        h1 == IF n_exts # 0 THEN SetFlag(h0, subscriber_flag_Z) ELSE h0
        h2 == IF x.mapping # MappingDefault THEN SetFlag(h1, subscriber_flag_M) ELSE h1
        h3 == IF HasSuffix(x.wire_expr) THEN SetFlag(h2, subscriber_flag_N) ELSE h2
    IN <<h3>> \o WriteZInt(x.id) \o WriteWireExpr(x.wire_expr)
       \o (IF x.ext_info # QueryableInfoDefault
           THEN WriteZExtZ64(QueryInfo_ID, QueryableInfoToZ64(x.ext_info), n_exts - 1 # 0)
           ELSE <<>>)

\* ReadQueryableExts taking the end of the input for the end of the chain
RECURSIVE ReadQueryableExts_EndOnTruncation(_, _, _)
ReadQueryableExts_EndOnTruncation(b, p, ext_info) ==
    IF ~ReadU8(b, p).ok THEN Ok(ext_info, p)
    ELSE Try(ReadU8(b, p), LAMBDA e :
        IF Eid(e.val) = QueryInfo_ID
        THEN Try(ReadZExtZ64(QueryInfo_ID, e.val, b, e.pos), LAMBDA r :
                 IF r.val.more
                 THEN ReadQueryableExts_EndOnTruncation(b, r.pos,
                          QueryableInfoFromZ64(r.val.value))
                 ELSE Ok(QueryableInfoFromZ64(r.val.value), r.pos))
        ELSE Try(skip(e.val, b, e.pos), LAMBDA s :
                 IF s.val THEN ReadQueryableExts_EndOnTruncation(b, s.pos, ext_info)
                 ELSE Ok(ext_info, s.pos)))

\* the while has_ext loop of the DeclareQueryable reader, entered with has_ext true
RECURSIVE ReadQueryableExts(_, _, _)
ReadQueryableExts(b, p, ext_info) ==
    Try(ReadU8(b, p), LAMBDA e :
        IF Eid(e.val) = QueryInfo_ID
        THEN Try(ReadZExtZ64(QueryInfo_ID, e.val, b, e.pos), LAMBDA r :
                 IF r.val.more
                 THEN ReadQueryableExts(b, r.pos, QueryableInfoFromZ64(r.val.value))
                 ELSE Ok(QueryableInfoFromZ64(r.val.value), r.pos))
        ELSE Try(skip(e.val, b, e.pos), LAMBDA s :
                 IF s.val THEN ReadQueryableExts(b, s.pos, ext_info)
                 ELSE Ok(ext_info, s.pos)))

\* ReadDeclareQueryableH deriving the mapping from flag N instead of flag M
ReadDeclareQueryableH_MappingFromN(h, b, p) ==
    IF Mid(h) # D_QUERYABLE THEN Err(p)
    ELSE Try(ReadZInt(b, p), LAMBDA id :
         Try(ReadWireExpr(HasFlag(h, queryable_flag_N), b, id.pos), LAMBDA we :
         Try(IF HasFlag(h, queryable_flag_Z)
             THEN ReadQueryableExts(b, we.pos, QueryableInfoDefault)
             ELSE Ok(QueryableInfoDefault, we.pos),
             LAMBDA ext :
             Ok([kind |-> "DeclareQueryable", id |-> id.val, wire_expr |-> we.val,
                 mapping |-> IF HasFlag(h, queryable_flag_N) THEN "Sender" ELSE "Receiver",
                 ext_info |-> ext.val], ext.pos))))

\* RCodec<queryable::DeclareQueryable> for Zenoh080Header
ReadDeclareQueryableH(h, b, p) ==
    IF Mid(h) # D_QUERYABLE THEN Err(p)
    ELSE Try(ReadZInt(b, p), LAMBDA id :
         Try(ReadWireExpr(HasFlag(h, queryable_flag_N), b, id.pos), LAMBDA we :
         Try(IF HasFlag(h, queryable_flag_Z)
             THEN ReadQueryableExts(b, we.pos, QueryableInfoDefault)
             ELSE Ok(QueryableInfoDefault, we.pos),
             LAMBDA ext :
             Ok([kind |-> "DeclareQueryable", id |-> id.val, wire_expr |-> we.val,
                 mapping |-> IF HasFlag(h, queryable_flag_M) THEN "Sender" ELSE "Receiver",
                 ext_info |-> ext.val], ext.pos))))

\* WCodec<&token::DeclareToken>
WriteDeclareToken(x) ==
    LET h0 == D_TOKEN
        h1 == IF x.mapping # MappingDefault THEN SetFlag(h0, subscriber_flag_M) ELSE h0
        h2 == IF HasSuffix(x.wire_expr) THEN SetFlag(h1, subscriber_flag_N) ELSE h1
    IN <<h2>> \o WriteZInt(x.id) \o WriteWireExpr(x.wire_expr)

\* RCodec<token::DeclareToken> for Zenoh080Header
ReadDeclareTokenH(h, b, p) ==
    IF Mid(h) # D_TOKEN THEN Err(p)
    ELSE Try(ReadZInt(b, p), LAMBDA id :
         Try(ReadWireExpr(HasFlag(h, token_flag_N), b, id.pos), LAMBDA we :
         Try(IF HasFlag(h, token_flag_Z) THEN skip_all(b, we.pos) ELSE Ok(FALSE, we.pos),
             LAMBDA s :
             Ok([kind |-> "DeclareToken", id |-> id.val, wire_expr |-> we.val,
                 mapping |-> IF HasFlag(h, token_flag_M) THEN "Sender" ELSE "Receiver"],
                s.pos))))

(***************************************************************************)
(* DeclareBody                                                             *)
(***************************************************************************)
\* WCodec<&DeclareBody>
WriteDeclareBody(x) ==
    CASE x.kind = "DeclareKeyExpr" -> WriteDeclareKeyExpr(x)
      [] x.kind = "UndeclareKeyExpr" -> WriteUndeclareKeyExpr(x)
      [] x.kind = "DeclareSubscriber" -> WriteDeclareSubscriber(x)
      [] x.kind = "UndeclareSubscriber" -> WriteUndeclareSubscriber(x)
      [] x.kind = "DeclareQueryable" -> WriteDeclareQueryable(x)
      [] x.kind = "UndeclareQueryable" -> WriteUndeclareQueryable(x)
      [] x.kind = "DeclareToken" -> WriteDeclareToken(x)
      [] x.kind = "UndeclareToken" -> WriteUndeclareToken(x)

\* DispatchDeclareBody handing the readers the type id without the flags
DispatchDeclareBody_BareId(h, b, p) ==
    CASE Mid(h) = D_KEYEXPR -> ReadDeclareKeyExprH(Mid(h), b, p)
      [] Mid(h) = U_KEYEXPR -> ReadUndeclareKeyExprH(Mid(h), b, p)
      [] Mid(h) = D_SUBSCRIBER -> ReadDeclareSubscriberH(Mid(h), b, p)
      [] Mid(h) = U_SUBSCRIBER -> ReadUndeclareSubscriberH(Mid(h), b, p)
      [] Mid(h) = D_QUERYABLE -> ReadDeclareQueryableH(Mid(h), b, p)
      [] Mid(h) = U_QUERYABLE -> ReadUndeclareQueryableH(Mid(h), b, p)
      [] Mid(h) = D_TOKEN -> ReadDeclareTokenH(Mid(h), b, p)
      [] Mid(h) = U_TOKEN -> ReadUndeclareTokenH(Mid(h), b, p)
      [] OTHER -> Err(p)

\* the match of RCodec<DeclareBody> on imsg::mid(codec.header)
DispatchDeclareBody(h, b, p) ==
    CASE Mid(h) = D_KEYEXPR -> ReadDeclareKeyExprH(h, b, p)
      [] Mid(h) = U_KEYEXPR -> ReadUndeclareKeyExprH(h, b, p)
      [] Mid(h) = D_SUBSCRIBER -> ReadDeclareSubscriberH(h, b, p)
      [] Mid(h) = U_SUBSCRIBER -> ReadUndeclareSubscriberH(h, b, p)
      [] Mid(h) = D_QUERYABLE -> ReadDeclareQueryableH(h, b, p)
      [] Mid(h) = U_QUERYABLE -> ReadUndeclareQueryableH(h, b, p)
      [] Mid(h) = D_TOKEN -> ReadDeclareTokenH(h, b, p)
      [] Mid(h) = U_TOKEN -> ReadUndeclareTokenH(h, b, p)
      [] OTHER -> Err(p)

\* RCodec<DeclareBody> for Zenoh080
ReadDeclareBody(b, p) ==
    Try(ReadU8(b, p), LAMBDA h : DispatchDeclareBody(h.val, b, h.pos))

(***************************************************************************)
(* Declare envelope: [body, ext_qos, ext_tstamp]                           *)
(***************************************************************************)
\* WriteDeclare deciding each continuation bit before counting the
\* extension it writes
WriteDeclare_MoreBeforeDecrement(x) ==
    LET n0 == (IF x.ext_qos # QoSDefault THEN 1 ELSE 0)
              + (IF x.ext_tstamp # NoTimestamp THEN 1 ELSE 0)
        header == IF n0 # 0 THEN SetFlag(DECLARE, declare_flag_Z) ELSE DECLARE
        n1 == IF x.ext_qos # QoSDefault THEN n0 - 1 ELSE n0
    IN <<header>>
       \o (IF x.ext_qos # QoSDefault
           THEN WriteZExtZ64(QoS_ID, QoSToZ64(x.ext_qos), n0 # 0) ELSE <<>>)
       \o (IF x.ext_tstamp # NoTimestamp
           THEN WriteZExtZ64(Timestamp_ID, x.ext_tstamp[1], n1 # 0) ELSE <<>>)
       \o WriteDeclareBody(x.body)

\* WCodec<&Declare>
WriteDeclare(x) ==
    LET n0 == (IF x.ext_qos # QoSDefault THEN 1 ELSE 0)
              + (IF x.ext_tstamp # NoTimestamp THEN 1 ELSE 0)
        header == IF n0 # 0 THEN SetFlag(DECLARE, declare_flag_Z) ELSE DECLARE
        n1 == IF x.ext_qos # QoSDefault THEN n0 - 1 ELSE n0
        n2 == IF x.ext_tstamp # NoTimestamp THEN n1 - 1 ELSE n1
    IN <<header>>
       \o (IF x.ext_qos # QoSDefault
           THEN WriteZExtZ64(QoS_ID, QoSToZ64(x.ext_qos), n1 # 0) ELSE <<>>)
       \o (IF x.ext_tstamp # NoTimestamp
           THEN WriteZExtZ64(Timestamp_ID, x.ext_tstamp[1], n2 # 0) ELSE <<>>)
       \o WriteDeclareBody(x.body)

\* the while has_ext loop of the Declare reader, entered with has_ext true;
\* val = [ext_qos, ext_tstamp]
RECURSIVE ReadDeclareExts(_, _, _, _)
ReadDeclareExts(b, p, ext_qos, ext_tstamp) ==
    Try(ReadU8(b, p), LAMBDA e :
        IF Eid(e.val) = QoS_ID
        THEN Try(ReadZExtZ64(QoS_ID, e.val, b, e.pos), LAMBDA r :
                 IF r.val.more
                 THEN ReadDeclareExts(b, r.pos, QoSFromZ64(r.val.value), ext_tstamp)
                 ELSE Ok([ext_qos |-> QoSFromZ64(r.val.value),
                          ext_tstamp |-> ext_tstamp], r.pos))
        ELSE IF Eid(e.val) = Timestamp_ID
        THEN Try(ReadZExtZ64(Timestamp_ID, e.val, b, e.pos), LAMBDA r :
                 IF r.val.more
                 THEN ReadDeclareExts(b, r.pos, ext_qos, <<r.val.value>>)
                 ELSE Ok([ext_qos |-> ext_qos, ext_tstamp |-> <<r.val.value>>], r.pos))
        ELSE Try(skip(e.val, b, e.pos), LAMBDA s :
                 IF s.val THEN ReadDeclareExts(b, s.pos, ext_qos, ext_tstamp)
                 ELSE Ok([ext_qos |-> ext_qos, ext_tstamp |-> ext_tstamp], s.pos)))

\* ReadDeclareH starting from a zero QoS instead of QoSType::default()
ReadDeclareH_QosZero(h, b, p) ==
    IF Mid(h) # DECLARE THEN Err(p)
    ELSE Try(IF HasFlag(h, declare_flag_Z)
             THEN ReadDeclareExts(b, p, 0, NoTimestamp)
             ELSE Ok([ext_qos |-> 0, ext_tstamp |-> NoTimestamp], p),
             LAMBDA ext :
         Try(ReadDeclareBody(b, ext.pos), LAMBDA body :
             Ok([body |-> body.val, ext_qos |-> ext.val.ext_qos,
                 ext_tstamp |-> ext.val.ext_tstamp], body.pos)))

\* RCodec<Declare> for Zenoh080Header
ReadDeclareH(h, b, p) ==
    IF Mid(h) # DECLARE THEN Err(p)
    ELSE Try(IF HasFlag(h, declare_flag_Z)
             THEN ReadDeclareExts(b, p, QoSDefault, NoTimestamp)
             ELSE Ok([ext_qos |-> QoSDefault, ext_tstamp |-> NoTimestamp], p),
             LAMBDA ext :
         Try(ReadDeclareBody(b, ext.pos), LAMBDA body :
             Ok([body |-> body.val, ext_qos |-> ext.val.ext_qos,
                 ext_tstamp |-> ext.val.ext_tstamp], body.pos)))

\* RCodec<T> for Zenoh080, every T: read the header byte, then the
\* Zenoh080Header reader of T
ReadDeclare(b, p) == Try(ReadU8(b, p), LAMBDA h : ReadDeclareH(h.val, b, h.pos))
ReadDeclareKeyExpr(b, p) == Try(ReadU8(b, p), LAMBDA h : ReadDeclareKeyExprH(h.val, b, h.pos))
ReadUndeclareKeyExpr(b, p) == Try(ReadU8(b, p), LAMBDA h : ReadUndeclareKeyExprH(h.val, b, h.pos))
ReadDeclareSubscriber(b, p) == Try(ReadU8(b, p), LAMBDA h : ReadDeclareSubscriberH(h.val, b, h.pos))
ReadUndeclareSubscriber(b, p) == Try(ReadU8(b, p), LAMBDA h : ReadUndeclareSubscriberH(h.val, b, h.pos))
ReadDeclareQueryable(b, p) == Try(ReadU8(b, p), LAMBDA h : ReadDeclareQueryableH(h.val, b, h.pos))
ReadUndeclareQueryable(b, p) == Try(ReadU8(b, p), LAMBDA h : ReadUndeclareQueryableH(h.val, b, h.pos))
ReadDeclareToken(b, p) == Try(ReadU8(b, p), LAMBDA h : ReadDeclareTokenH(h.val, b, h.pos))
ReadUndeclareToken(b, p) == Try(ReadU8(b, p), LAMBDA h : ReadUndeclareTokenH(h.val, b, h.pos))

(***************************************************************************)
(* Values handed to the writers                                            *)
(***************************************************************************)
Ids == {0, 5, 200}
WireExprs == [scope : {0, 3}, suffix : {<<>>, <<100, 47>>}]
Mappings == {"Receiver", "Sender"}
SubscriberInfos == [reliability : {"BestEffort", "Reliable"}, mode : {"Push", "Pull"}]
QueryableInfos == [complete : {0, 1}, distance : {0, 2}]

DeclareBodies ==
    [kind : {"DeclareKeyExpr"}, id : Ids, wire_expr : WireExprs]
    \cup [kind : {"DeclareSubscriber"}, id : Ids, wire_expr : WireExprs,
          mapping : Mappings, ext_info : SubscriberInfos]
    \cup [kind : {"DeclareQueryable"}, id : Ids, wire_expr : WireExprs,
          mapping : Mappings, ext_info : QueryableInfos]
    \cup [kind : {"DeclareToken"}, id : Ids, wire_expr : WireExprs, mapping : Mappings]
    \cup [kind : {"UndeclareKeyExpr", "UndeclareSubscriber", "UndeclareQueryable",
                  "UndeclareToken"}, id : Ids]

Declares ==
    [body : DeclareBodies, ext_qos : {QoSDefault, 1}, ext_tstamp : {NoTimestamp, <<7>>}]

NoMsg == [kind |-> "None"]

(***************************************************************************)
(* Buffers built by a peer: a header, the fixed fields of the kind the     *)
(* header names, and a chain of extensions each announcing the next.       *)
(***************************************************************************)
ExtItems ==
    { [id |-> 1, enc |-> ENC_Z64, mandatory |-> FALSE, value |-> 1, payload |-> <<>>],
      [id |-> 1, enc |-> ENC_Z64, mandatory |-> FALSE, value |-> 2, payload |-> <<>>],
      [id |-> 2, enc |-> ENC_Z64, mandatory |-> FALSE, value |-> 7, payload |-> <<>>],
      [id |-> 2, enc |-> ENC_Z64, mandatory |-> FALSE, value |-> 300, payload |-> <<>>],
      [id |-> 5, enc |-> ENC_UNIT, mandatory |-> FALSE, value |-> 0, payload |-> <<>>],
      [id |-> 6, enc |-> ENC_ZBUF, mandatory |-> FALSE, value |-> 0, payload |-> <<9, 9>>],
      [id |-> 5, enc |-> ENC_Z64, mandatory |-> TRUE, value |-> 4, payload |-> <<>>] }

Chains == UNION { [1..k -> ExtItems] : k \in 0..MaxExts }

Mids == {D_KEYEXPR, U_KEYEXPR, D_SUBSCRIBER, U_SUBSCRIBER, D_QUERYABLE, U_QUERYABLE,
         D_TOKEN, U_TOKEN, DECLARE, 9}      \* 9 names no declaration
DeclareMids == {D_KEYEXPR, D_SUBSCRIBER, D_QUERYABLE, D_TOKEN}

\* z: flag Z; nm: flags N and M
Crafts == [mid : Mids, z : BOOLEAN, nm : BOOLEAN, chain : Chains]
NoCraft == [mid |-> 0]

CraftWireExpr(c) == [scope |-> 3, suffix |-> IF c.nm THEN <<100, 47>> ELSE <<>>]
CraftBody == [kind |-> "UndeclareKeyExpr", id |-> 5]

ExtItemBytes(e, more) ==
    <<e.id + e.enc + (IF e.mandatory THEN EXT_FLAG_M ELSE 0)
      + (IF more THEN EXT_FLAG_Z ELSE 0)>>
    \o (IF e.enc = ENC_Z64 THEN WriteZInt(e.value)
        ELSE IF e.enc = ENC_ZBUF THEN WriteString(e.payload)
        ELSE <<>>)

RECURSIVE ChainBytes(_)
ChainBytes(ch) ==
    IF ch = <<>> THEN <<>>
    ELSE ExtItemBytes(Head(ch), Len(ch) > 1) \o ChainBytes(Tail(ch))

CraftHeader(c) ==
    c.mid + (IF c.z THEN 128 ELSE 0) + (IF c.nm THEN 32 + 64 ELSE 0)

CraftBytes(c) ==
    <<CraftHeader(c)>>
    \o (IF c.mid = DECLARE THEN ChainBytes(c.chain) \o WriteDeclareBody(CraftBody)
        ELSE WriteZInt(200)
             \o (IF c.mid \in DeclareMids THEN WriteWireExpr(CraftWireExpr(c)) ELSE <<>>)
             \o ChainBytes(c.chain))

(***************************************************************************)
(* The readers a caller can apply to a buffer                              *)
(***************************************************************************)
Decoders == {"Declare", "DeclareBody", "DeclareKeyExpr", "UndeclareKeyExpr",
             "DeclareSubscriber", "UndeclareSubscriber", "DeclareQueryable",
             "UndeclareQueryable", "DeclareToken", "UndeclareToken"}

Decode(d, b) ==
    CASE d = "Declare" -> ReadDeclare(b, 0)
      [] d = "DeclareBody" -> ReadDeclareBody(b, 0)
      [] d = "DeclareKeyExpr" -> ReadDeclareKeyExpr(b, 0)
      [] d = "UndeclareKeyExpr" -> ReadUndeclareKeyExpr(b, 0)
      [] d = "DeclareSubscriber" -> ReadDeclareSubscriber(b, 0)
      [] d = "UndeclareSubscriber" -> ReadUndeclareSubscriber(b, 0)
      [] d = "DeclareQueryable" -> ReadDeclareQueryable(b, 0)
      [] d = "UndeclareQueryable" -> ReadUndeclareQueryable(b, 0)
      [] d = "DeclareToken" -> ReadDeclareToken(b, 0)
      [] d = "UndeclareToken" -> ReadUndeclareToken(b, 0)

\* the type id a kind-specific reader expects
ExpectedMid(d) ==
    CASE d = "Declare" -> DECLARE
      [] d = "DeclareKeyExpr" -> D_KEYEXPR
      [] d = "UndeclareKeyExpr" -> U_KEYEXPR
      [] d = "DeclareSubscriber" -> D_SUBSCRIBER
      [] d = "UndeclareSubscriber" -> U_SUBSCRIBER
      [] d = "DeclareQueryable" -> D_QUERYABLE
      [] d = "UndeclareQueryable" -> U_QUERYABLE
      [] d = "DeclareToken" -> D_TOKEN
      [] d = "UndeclareToken" -> U_TOKEN

(***************************************************************************)
(* Accept side of the Init stage                                           *)
(***************************************************************************)
Links == {"l1", "l2"}
Versions == {8, 9}
INVALID == "INVALID"                          \* close::reason::INVALID

\* what the local transport manager is configured with besides the version
ManagerConfig == [resolution |-> 2, batch_size |-> 1000, is_qos |-> FALSE]

\* the fields of an InitSyn the stage copies, as one peer sends them
Profiles ==
    { [whatami |-> "Peer", zid |-> 1, resolution |-> 2, batch_size |-> 1000],
      [whatami |-> "Client", zid |-> 2, resolution |-> 3, batch_size |-> 65535] }

\* Option<QoS>: None is <<>>, Some(q) is <<q>>
InitSyns ==
    { [body |-> "InitSyn", version |-> v, whatami |-> f.whatami, zid |-> f.zid,
       resolution |-> f.resolution, batch_size |-> f.batch_size, qos |-> q] :
      v \in Versions, f \in Profiles, q \in {<<>>, <<"QoS">>} }

TransportMessages == InitSyns \cup {[body |-> "InitAck"], [body |-> "KeepAlive"]}

\* what follows the first message of a batch
Trailing == { [body |-> "KeepAlive"],
              [body |-> "InitSyn", version |-> 8, whatami |-> "Peer", zid |-> 1,
               resolution |-> 2, batch_size |-> 1000, qos |-> <<>>] }

RECURSIVE Batches(_)
Batches(n) ==
    IF n = 0 THEN {<<>>}
    ELSE IF n = 1 THEN {<<m>> : m \in TransportMessages}
    ELSE {Append(b, t) : b \in Batches(n - 1), t \in Trailing}

\* what link.read_transport_message() can yield
ReadResults ==
    {[st |-> "err"]}
    \cup {[st |-> "msgs", messages |-> b] : b \in UNION {Batches(n) : n \in 0..MaxBatch}}
Idle == [st |-> "idle"]

Reject(cause) == [ok |-> FALSE, cause |-> cause, reason |-> <<INVALID>>]
Accept(output) == [ok |-> TRUE, output |-> output]
NoRet == [ok |-> FALSE, cause |-> "none", reason |-> <<>>]

\* recv without the version check
recv_NoVersionCheck(r, cfg_version) ==
    IF r.st = "err" THEN Reject("read")
    ELSE IF Len(r.messages) # 1 THEN Reject("multiple")
    ELSE IF r.messages[1].body # "InitSyn" THEN Reject("not InitSyn")
    ELSE Accept([whatami |-> r.messages[1].whatami, zid |-> r.messages[1].zid,
                 resolution |-> r.messages[1].resolution,
                 batch_size |-> r.messages[1].batch_size,
                 is_qos |-> r.messages[1].qos # <<>>])

\* recv taking the first message of a batch whatever the batch holds after it
recv_FirstOfBatch(r, cfg_version) ==
    IF r.st = "err" THEN Reject("read")
    ELSE IF Len(r.messages) < 1 THEN Reject("multiple")
    ELSE IF r.messages[1].body # "InitSyn" THEN Reject("not InitSyn")
    ELSE IF r.messages[1].version # cfg_version THEN Reject("version")
    ELSE Accept([whatami |-> r.messages[1].whatami, zid |-> r.messages[1].zid,
                 resolution |-> r.messages[1].resolution,
                 batch_size |-> r.messages[1].batch_size,
                 is_qos |-> r.messages[1].qos # <<>>])

\* recv returning no close reason for a message that is not an InitSyn
recv_NoReasonForBody(r, cfg_version) ==
    IF r.st = "err" THEN Reject("read")
    ELSE IF Len(r.messages) # 1 THEN Reject("multiple")
    ELSE IF r.messages[1].body # "InitSyn"
    THEN [ok |-> FALSE, cause |-> "not InitSyn", reason |-> <<>>]
    ELSE IF r.messages[1].version # cfg_version THEN Reject("version")
    ELSE Accept([whatami |-> r.messages[1].whatami, zid |-> r.messages[1].zid,
                 resolution |-> r.messages[1].resolution,
                 batch_size |-> r.messages[1].batch_size,
                 is_qos |-> r.messages[1].qos # <<>>])

\* recv reporting QoS whatever the InitSyn carried
recv_QosAlways(r, cfg_version) ==
    IF r.st = "err" THEN Reject("read")
    ELSE IF Len(r.messages) # 1 THEN Reject("multiple")
    ELSE IF r.messages[1].body # "InitSyn" THEN Reject("not InitSyn")
    ELSE IF r.messages[1].version # cfg_version THEN Reject("version")
    ELSE Accept([whatami |-> r.messages[1].whatami, zid |-> r.messages[1].zid,
                 resolution |-> r.messages[1].resolution,
                 batch_size |-> r.messages[1].batch_size,
                 is_qos |-> TRUE])

\* recv rejecting an InitSyn whose resolution is wider than the local one
recv_ResolutionCheck(r, cfg_version) ==
    IF r.st = "err" THEN Reject("read")
    ELSE IF Len(r.messages) # 1 THEN Reject("multiple")
    ELSE IF r.messages[1].body # "InitSyn" THEN Reject("not InitSyn")
    ELSE IF r.messages[1].version # cfg_version THEN Reject("version")
    ELSE IF r.messages[1].resolution > ManagerConfig.resolution
    THEN Reject("resolution")
    ELSE Accept([whatami |-> r.messages[1].whatami, zid |-> r.messages[1].zid,
                 resolution |-> r.messages[1].resolution,
                 batch_size |-> r.messages[1].batch_size,
                 is_qos |-> r.messages[1].qos # <<>>])

\* recv putting in the Output the smaller of the peer's batch size and the
\* local one
recv_LocalBatchSize(r, cfg_version) ==
    IF r.st = "err" THEN Reject("read")
    ELSE IF Len(r.messages) # 1 THEN Reject("multiple")
    ELSE IF r.messages[1].body # "InitSyn" THEN Reject("not InitSyn")
    ELSE IF r.messages[1].version # cfg_version THEN Reject("version")
    ELSE Accept([whatami |-> r.messages[1].whatami, zid |-> r.messages[1].zid,
                 resolution |-> r.messages[1].resolution,
                 batch_size |-> IF r.messages[1].batch_size > ManagerConfig.batch_size
                                THEN ManagerConfig.batch_size
                                ELSE r.messages[1].batch_size,
                 is_qos |-> r.messages[1].qos # <<>>])

\* recv returning a failed link read without a close reason
recv_ReadErrorNoReason(r, cfg_version) ==
    IF r.st = "err" THEN [ok |-> FALSE, cause |-> "read", reason |-> <<>>]
    ELSE IF Len(r.messages) # 1 THEN Reject("multiple")
    ELSE IF r.messages[1].body # "InitSyn" THEN Reject("not InitSyn")
    ELSE IF r.messages[1].version # cfg_version THEN Reject("version")
    ELSE Accept([whatami |-> r.messages[1].whatami, zid |-> r.messages[1].zid,
                 resolution |-> r.messages[1].resolution,
                 batch_size |-> r.messages[1].batch_size,
                 is_qos |-> r.messages[1].qos # <<>>])

\* recv, from what the link read yielded and manager.config.version
recv(r, cfg_version) ==
    IF r.st = "err" THEN Reject("read")
    ELSE IF Len(r.messages) # 1 THEN Reject("multiple")
    ELSE IF r.messages[1].body # "InitSyn" THEN Reject("not InitSyn")
    ELSE IF r.messages[1].version # cfg_version THEN Reject("version")
    ELSE Accept([whatami |-> r.messages[1].whatami, zid |-> r.messages[1].zid,
                 resolution |-> r.messages[1].resolution,
                 batch_size |-> r.messages[1].batch_size,
                 is_qos |-> r.messages[1].qos # <<>>])

(***************************************************************************)
(* Specification of the codec: a caller writes a value, or a peer builds a *)
(* buffer; then a reader is applied to the bytes.                          *)
(***************************************************************************)
NoRes == [ok |-> FALSE, val |-> NoVal, pos |-> 0]

InitAcceptIdle ==
    /\ version = 8
    /\ wire = [l \in Links |-> Idle]
    /\ stage = [l \in Links |-> "AwaitInitSyn"]
    /\ rx = [l \in Links |-> Idle]
    /\ ret = [l \in Links |-> NoRet]
    /\ reads = [l \in Links |-> 0]

InitCodecIdle ==
    /\ msg = NoMsg
    /\ craft = NoCraft
    /\ buf = <<>>
    /\ dec = "none"
    /\ res = NoRes
    /\ cut = 0
    /\ pc = "init"

Init == InitCodecIdle /\ InitAcceptIdle

WriteBody ==
    /\ pc = "init"
    /\ \E x \in DeclareBodies :
         /\ msg' = x
         /\ buf' = WriteDeclareBody(x)
    /\ pc' = "written"
    /\ UNCHANGED <<craft, dec, res, cut, acceptVars>>

WriteEnvelope ==
    /\ pc = "init"
    /\ \E x \in Declares :
         /\ msg' = x
         /\ buf' = WriteDeclare(x)
    /\ pc' = "written"
    /\ UNCHANGED <<craft, dec, res, cut, acceptVars>>

PeerBuild ==
    /\ pc = "init"
    /\ \E c \in Crafts :
         /\ craft' = c
         /\ buf' = CraftBytes(c)
    /\ pc' = "written"
    /\ UNCHANGED <<msg, dec, res, cut, acceptVars>>

Read ==
    /\ pc = "written"
    /\ \E d \in Decoders :
         /\ dec' = d
         /\ res' = Decode(d, buf)
    /\ cut' = Len(buf)
    /\ pc' = "read"
    /\ UNCHANGED <<msg, craft, buf, acceptVars>>

\* the stream ends after n bytes of the buffer; the caller applies the
\* DeclareBody reader, or the reader of the kind the header names
ReadTruncated ==
    /\ pc = "written"
    /\ \E n \in 0..(Len(buf) - 1) :
         \E d \in {e \in Decoders : e = "DeclareBody" \/ ExpectedMid(e) = Mid(buf[1])} :
            /\ dec' = d
            /\ res' = Decode(d, SubSeq(buf, 1, n))
            /\ cut' = n
    /\ pc' = "read_truncated"
    /\ UNCHANGED <<msg, craft, buf, acceptVars>>

Next == WriteBody \/ WriteEnvelope \/ PeerBuild \/ Read \/ ReadTruncated

Spec == Init /\ [][Next]_vars

(***************************************************************************)
(* Specification of the accept Init stage: each link has one pending read; *)
(* recv runs once per link, in any interleaving with the other links.      *)
(***************************************************************************)
InitAccept ==
    /\ InitCodecIdle
    /\ version \in Versions
    /\ wire = [l \in Links |-> Idle]
    /\ stage = [l \in Links |-> "AwaitInitSyn"]
    /\ rx = [l \in Links |-> Idle]
    /\ ret = [l \in Links |-> NoRet]
    /\ reads = [l \in Links |-> 0]

\* the peer's bytes arrive: the pending read_transport_message() is decided
PeerSend(l) ==
    /\ stage[l] = "AwaitInitSyn"
    /\ wire[l] = Idle
    /\ \E r \in ReadResults : wire' = [wire EXCEPT ![l] = r]
    /\ UNCHANGED <<version, stage, rx, ret, reads, codecVars>>

\* what a peer sends again after the stage returned: one InitSyn, of either
\* version
Resends ==
    { [st |-> "msgs",
       messages |-> <<[body |-> "InitSyn", version |-> v, whatami |-> "Peer", zid |-> 1,
                       resolution |-> 2, batch_size |-> 1000, qos |-> <<>>]>>] :
      v \in Versions }

\* the peer goes on sending after recv returned on its link
PeerResend(l) ==
    /\ stage[l] # "AwaitInitSyn"
    /\ wire[l] = Idle
    /\ \E r \in Resends : wire' = [wire EXCEPT ![l] = r]
    /\ UNCHANGED <<version, stage, rx, ret, reads, codecVars>>

\* Recv started again on a link whose InitSyn was rejected
Recv_Retry(l) ==
    /\ stage[l] \in {"AwaitInitSyn", "Rejected"}
    /\ wire[l] # Idle
    /\ rx' = [rx EXCEPT ![l] = wire[l]]
    /\ wire' = [wire EXCEPT ![l] = Idle]
    /\ reads' = [reads EXCEPT ![l] = @ + 1]
    /\ ret' = [ret EXCEPT ![l] = recv(wire[l], version)]
    /\ stage' = [stage EXCEPT ![l] = IF recv(wire[l], version).ok THEN "Output"
                                     ELSE "Rejected"]
    /\ UNCHANGED <<version, codecVars>>

\* Recv failing on a link because the stage failed on another link
Recv_SharedFailure(l) ==
    /\ stage[l] = "AwaitInitSyn"
    /\ wire[l] # Idle
    /\ rx' = [rx EXCEPT ![l] = wire[l]]
    /\ wire' = [wire EXCEPT ![l] = Idle]
    /\ reads' = [reads EXCEPT ![l] = @ + 1]
    /\ ret' = [ret EXCEPT ![l] = IF \E k \in Links : stage[k] = "Rejected"
                                  THEN Reject("shared")
                                  ELSE recv(wire[l], version)]
    /\ stage' = [stage EXCEPT ![l] = IF recv(wire[l], version).ok
                                        /\ ~\E k \in Links : stage[k] = "Rejected"
                                     THEN "Output" ELSE "Rejected"]
    /\ UNCHANGED <<version, codecVars>>

\* recv resumes from its one await and runs to its return
Recv(l) ==
    /\ stage[l] = "AwaitInitSyn"
    /\ wire[l] # Idle
    /\ rx' = [rx EXCEPT ![l] = wire[l]]
    /\ wire' = [wire EXCEPT ![l] = Idle]
    /\ reads' = [reads EXCEPT ![l] = @ + 1]
    /\ ret' = [ret EXCEPT ![l] = recv(wire[l], version)]
    /\ stage' = [stage EXCEPT ![l] = IF recv(wire[l], version).ok THEN "Output"
                                     ELSE "Rejected"]
    /\ UNCHANGED <<version, codecVars>>

NextAccept == \E l \in Links : PeerSend(l) \/ Recv(l) \/ PeerResend(l)

SpecAccept == InitAccept /\ [][NextAccept]_vars

(***************************************************************************)
(* Properties of the codec, checked under Spec                             *)
(***************************************************************************)
\* the flag bits of the family, the same in every kind's flag module
FlagZ == declare_flag_Z
FlagN == keyexpr_flag_N
FlagM == subscriber_flag_M

IsBodyMsg == "kind" \in DOMAIN msg /\ msg # NoMsg       \* a DeclareBody was written
IsEnvelopeMsg == "body" \in DOMAIN msg                  \* a Declare was written
IsCraft == craft # NoCraft                              \* a peer built the buffer

\* what the written value says about the header byte
MsgMid ==
    IF IsEnvelopeMsg THEN DECLARE
    ELSE CASE msg.kind = "DeclareKeyExpr" -> D_KEYEXPR
           [] msg.kind = "UndeclareKeyExpr" -> U_KEYEXPR
           [] msg.kind = "DeclareSubscriber" -> D_SUBSCRIBER
           [] msg.kind = "UndeclareSubscriber" -> U_SUBSCRIBER
           [] msg.kind = "DeclareQueryable" -> D_QUERYABLE
           [] msg.kind = "UndeclareQueryable" -> U_QUERYABLE
           [] msg.kind = "DeclareToken" -> D_TOKEN
           [] msg.kind = "UndeclareToken" -> U_TOKEN
MsgHasNonDefaultExt ==
    IF IsEnvelopeMsg THEN msg.ext_qos # QoSDefault \/ msg.ext_tstamp # NoTimestamp
    ELSE IF msg.kind = "DeclareSubscriber" THEN msg.ext_info # SubscriberInfoDefault
    ELSE IF msg.kind = "DeclareQueryable" THEN msg.ext_info # QueryableInfoDefault
    ELSE FALSE
MsgHasSuffix == "wire_expr" \in DOMAIN msg /\ HasSuffix(msg.wire_expr)
MsgMappingNonDefault == "mapping" \in DOMAIN msg /\ msg.mapping # MappingDefault

\* C1: reading, with the DeclareBody reader, the bytes written for a
\* DeclareBody x of any of the eight kinds yields x itself and consumes
\* exactly the bytes written.
C1_BodyRoundTrip ==
    (pc = "read" /\ IsBodyMsg /\ dec = "DeclareBody")
        => (res.ok /\ res.val = msg /\ res.pos = Len(buf))

C1_Witness ==
    /\ pc = "read" /\ IsBodyMsg /\ dec = "DeclareBody"
    /\ msg.kind = "DeclareQueryable"
    /\ msg.mapping = "Sender"
    /\ HasSuffix(msg.wire_expr)
    /\ msg.ext_info # QueryableInfoDefault
    /\ msg.id = 200
    /\ res.ok /\ res.val = msg

\* C2: in the header byte every encoder writes, Z is set iff an extension
\* of the value differs from its default, N iff the wire expression has a
\* suffix, M iff the mapping is not the default, and the low bits are the
\* type id of the kind written.
C2_HeaderFlags ==
    (pc # "init" /\ (IsBodyMsg \/ IsEnvelopeMsg))
        => /\ Mid(buf[1]) = MsgMid
           /\ HasFlag(buf[1], FlagZ) <=> MsgHasNonDefaultExt
           /\ HasFlag(buf[1], FlagN) <=> MsgHasSuffix
           /\ HasFlag(buf[1], FlagM) <=> MsgMappingNonDefault

C2_Witness ==
    /\ pc = "written" /\ IsBodyMsg
    /\ msg.kind = "DeclareQueryable"
    /\ msg.mapping = "Sender"
    /\ HasSuffix(msg.wire_expr)
    /\ msg.ext_info = QueryableInfoDefault
    /\ buf[1] = D_QUERYABLE + FlagM + FlagN

\* C3: a kind-specific reader, or the envelope reader, given a header whose
\* type id is not its own returns an error, no value, and has consumed the
\* header byte alone.
C3_HeaderMismatch ==
    (pc = "read" /\ dec # "DeclareBody" /\ Mid(buf[1]) # ExpectedMid(dec))
        => (~res.ok /\ res.val = NoVal /\ res.pos = 1)

C3_Witness ==
    /\ pc = "read" /\ dec = "DeclareSubscriber"
    /\ IsBodyMsg /\ msg.kind = "DeclareQueryable"
    /\ Mid(buf[1]) = D_QUERYABLE
    /\ ~res.ok /\ res.pos = 1

(***************************************************************************)
(* Properties of the accept Init stage, checked under SpecAccept           *)
(***************************************************************************)
Returned(l) == stage[l] # "AwaitInitSyn"                 \* recv has returned on l
RxSingle(l) == rx[l].st = "msgs" /\ Len(rx[l].messages) = 1
RxInitSyn(l) == RxSingle(l) /\ rx[l].messages[1].body = "InitSyn"
RejectedInvalid(l) ==
    stage[l] = "Rejected" /\ ~ret[l].ok /\ ret[l].reason = <<INVALID>>

\* C4: a single InitSyn whose version is not manager.config.version is
\* rejected with reason INVALID and gives no Output; an Output is returned
\* only for an InitSyn whose version equals the configured one.
C4_VersionGate ==
    \A l \in Links :
        /\ (Returned(l) /\ RxInitSyn(l) /\ rx[l].messages[1].version # version)
               => RejectedInvalid(l)
        /\ ret[l].ok => (RxInitSyn(l) /\ rx[l].messages[1].version = version)

C4_Witness ==
    \E l \in Links :
        /\ Returned(l) /\ RxInitSyn(l)
        /\ rx[l].messages[1].version # version
        /\ RejectedInvalid(l)

\* C5: a read that yields no message, or more than one, is rejected with
\* reason INVALID and gives no Output, whatever the first message is.
C5_SingleMessage ==
    \A l \in Links :
        (Returned(l) /\ rx[l].st = "msgs" /\ Len(rx[l].messages) # 1)
            => RejectedInvalid(l)

C5_Witness ==
    /\ \E l \in Links :
        /\ Returned(l) /\ rx[l].st = "msgs" /\ Len(rx[l].messages) = 2
        /\ rx[l].messages[1].body = "InitSyn"
        /\ rx[l].messages[1].version = version
        /\ RejectedInvalid(l)
    /\ \E l \in Links :
        /\ Returned(l) /\ rx[l].st = "msgs" /\ Len(rx[l].messages) = 0
        /\ RejectedInvalid(l)

\* C6: a single message whose body is not an InitSyn is rejected with
\* reason INVALID and gives no Output.
C6_NotInitSyn ==
    \A l \in Links :
        (Returned(l) /\ RxSingle(l) /\ rx[l].messages[1].body # "InitSyn")
            => RejectedInvalid(l)

C6_Witness ==
    \E l \in Links :
        /\ Returned(l) /\ RxSingle(l)
        /\ rx[l].messages[1].body = "InitAck"
        /\ RejectedInvalid(l)

\* C7: when recv returns an Output, is_qos is true exactly when the InitSyn
\* carried the QoS extension.
C7_QosPropagation ==
    \A l \in Links :
        ret[l].ok => (ret[l].output.is_qos <=> rx[l].messages[1].qos # <<>>)

C7_Witness ==
    /\ \E l \in Links :
        ret[l].ok /\ ret[l].output.is_qos /\ rx[l].messages[1].qos # <<>>
    /\ \E l \in Links :
        ret[l].ok /\ ~ret[l].output.is_qos /\ rx[l].messages[1].qos = <<>>

(***************************************************************************)
(* Properties of the extension chains, checked under Spec on the buffers a *)
(* peer built                                                              *)
(***************************************************************************)
BodyMids == {D_KEYEXPR, U_KEYEXPR, D_SUBSCRIBER, U_SUBSCRIBER, D_QUERYABLE,
             U_QUERYABLE, D_TOKEN, U_TOKEN}

\* the extension ids the reader of a kind matches before falling back to skip
RecognizedIds(mid) ==
    IF mid = DECLARE THEN {QoS_ID, Timestamp_ID}
    ELSE IF mid = D_SUBSCRIBER THEN {SubInfo_ID}
    ELSE IF mid = D_QUERYABLE THEN {QueryInfo_ID}
    ELSE {}

\* the reader of the kind of the peer-built buffer was applied, and the
\* header announced the chain
ChainRead ==
    /\ pc = "read" /\ IsCraft /\ craft.z
    /\ \/ dec = "DeclareBody" /\ craft.mid \in BodyMids
       \/ dec # "DeclareBody" /\ ExpectedMid(dec) = craft.mid

Occurrences(id) == {i \in 1..Len(craft.chain) : craft.chain[i].id = id}
LastOccurrence(id) ==
    CHOOSE i \in Occurrences(id) : \A j \in Occurrences(id) : j <= i

\* the decoded message holds, for extension id, what value v decodes to
DecodedExtIs(id, v) ==
    IF craft.mid = DECLARE
    THEN IF id = QoS_ID THEN res.val.ext_qos = QoSFromZ64(v)
         ELSE res.val.ext_tstamp = <<v>>
    ELSE IF craft.mid = D_SUBSCRIBER
    THEN res.val.ext_info = SubscriberInfoFromZ64(v)
    ELSE res.val.ext_info = QueryableInfoFromZ64(v)

\* C8: when a chain read by the Declare, DeclareSubscriber or
\* DeclareQueryable reader holds an extension kind the reader recognizes two
\* or more times, the decoded field is the value of its last occurrence.
C8_LastWins ==
    ChainRead =>
        \A id \in RecognizedIds(craft.mid) :
            (Cardinality(Occurrences(id)) >= 2 /\ res.ok)
                => DecodedExtIs(id, craft.chain[LastOccurrence(id)].value)

C8_Witness ==
    /\ ChainRead /\ dec = "DeclareSubscriber"
    /\ Len(craft.chain) = 2
    /\ craft.chain[1].id = SubInfo_ID /\ craft.chain[1].value = 1
    /\ craft.chain[2].id = SubInfo_ID /\ craft.chain[2].value = 2
    /\ res.ok
    /\ res.val.ext_info = [reliability |-> "BestEffort", mode |-> "Pull"]

\* one of the two extensions is recognized by the reader, the other is
\* unknown to it and skippable
OneKnownOneSkippable(r, u) ==
    /\ Len(craft.chain) = 2
    /\ craft.chain[r].id \in RecognizedIds(craft.mid)
    /\ craft.chain[u].id \notin RecognizedIds(craft.mid)
    /\ ~craft.chain[u].mandatory

Swapped == [craft EXCEPT !.chain = <<craft.chain[2], craft.chain[1]>>]

\* C9: for a chain of one recognized and one unknown skippable extension,
\* in either order, the read succeeds with the recognized extension's
\* value, equals the read of the chain in the other order, and ends
\* exactly after the chain: at the end of the buffer, the envelope having
\* read its body right after the chain.
C9_SkipOrder ==
    \A r, u \in 1..2 :
        (ChainRead /\ dec # "DeclareBody" /\ r # u /\ OneKnownOneSkippable(r, u))
            => /\ res.ok
               /\ DecodedExtIs(craft.chain[r].id, craft.chain[r].value)
               /\ res.pos = Len(buf)
               /\ craft.mid = DECLARE => res.val.body = CraftBody
               /\ res = Decode(dec, CraftBytes(Swapped))

C9_Witness ==
    /\ ChainRead /\ dec = "DeclareSubscriber"
    /\ OneKnownOneSkippable(2, 1)
    /\ craft.chain[1].enc = ENC_ZBUF
    /\ craft.chain[2].value = 1
    /\ res.ok /\ res.pos = Len(buf)
    /\ res.val.ext_info = [reliability |-> "Reliable", mode |-> "Push"]

\* C10: when the chain holds an extension the reader does not recognize and
\* that is marked mandatory, the read of the whole message fails and gives
\* no value, for the readers with their own loop and for those that only
\* call skip_all.
C10_MandatoryUnknown ==
    (ChainRead /\ \E i \in 1..Len(craft.chain) :
                      /\ craft.chain[i].mandatory
                      /\ craft.chain[i].id \notin RecognizedIds(craft.mid))
        => (~res.ok /\ res.val = NoVal)

C10_Witness ==
    /\ ChainRead /\ dec = "DeclareKeyExpr"
    /\ Len(craft.chain) = 2
    /\ ~craft.chain[1].mandatory
    /\ craft.chain[2].mandatory
    /\ ~res.ok

(***************************************************************************)
(* Properties of the readers on an input that ends early, checked under    *)
(* Spec                                                                    *)
(***************************************************************************)
\* the reader was given the first cut bytes of a buffer of which, given the
\* whole, it reads a message ending after byte cut: a field it requires is
\* missing or incomplete
EndsBeforeRequired ==
    /\ pc = "read_truncated"
    /\ Decode(dec, buf).ok
    /\ cut < Decode(dec, buf).pos

\* C11: a declaration reader or the envelope reader whose input ends before
\* a field it requires (header, id, wire expression, announced extension,
\* envelope body) is complete returns an error and no message; whenever it
\* returns a message on a shortened input, it is the whole message the full
\* buffer holds.
C11_Truncated ==
    /\ EndsBeforeRequired => (~res.ok /\ res.val = NoVal)
    /\ (pc = "read_truncated" /\ res.ok) => res = Decode(dec, buf)

C11_Witness ==
    /\ EndsBeforeRequired
    /\ dec = "Declare" /\ IsCraft /\ craft.z
    /\ Len(craft.chain) = 2
    /\ craft.chain[2].enc = ENC_ZBUF
    /\ cut = Len(buf) - Len(WriteDeclareBody(CraftBody)) - 1
    /\ ~res.ok /\ res.val = NoVal

(***************************************************************************)
(* Properties of the extension chains the writers produce, checked under   *)
(* Spec                                                                    *)
(***************************************************************************)
\* a value of a kind whose writer has extensions of its own was written
WroteWithExts ==
    /\ pc # "init"
    /\ \/ IsEnvelopeMsg
       \/ IsBodyMsg /\ msg.kind \in {"DeclareSubscriber", "DeclareQueryable"}

\* the extensions of the written value that differ from their default, in
\* the order of the format: [id, value]
MsgExts ==
    IF IsEnvelopeMsg
    THEN (IF msg.ext_qos # QoSDefault
          THEN <<[id |-> QoS_ID, value |-> QoSToZ64(msg.ext_qos)]>> ELSE <<>>)
         \o (IF msg.ext_tstamp # NoTimestamp
             THEN <<[id |-> Timestamp_ID, value |-> msg.ext_tstamp[1]]>> ELSE <<>>)
    ELSE IF msg.kind = "DeclareSubscriber"
    THEN (IF msg.ext_info # SubscriberInfoDefault
          THEN <<[id |-> SubInfo_ID, value |-> SubscriberInfoToZ64(msg.ext_info)]>>
          ELSE <<>>)
    ELSE (IF msg.ext_info # QueryableInfoDefault
          THEN <<[id |-> QueryInfo_ID, value |-> QueryableInfoToZ64(msg.ext_info)]>>
          ELSE <<>>)

\* bytes before the chain: the header and, in a body, the id and the wire
\* expression
ChainStart ==
    IF IsEnvelopeMsg THEN 1
    ELSE 1 + Len(WriteZInt(msg.id)) + Len(WriteWireExpr(msg.wire_expr))

\* bytes of the first k extensions of MsgExts: a header byte and the value
RECURSIVE ExtsLen(_)
ExtsLen(k) == IF k = 0 THEN 0 ELSE ExtsLen(k - 1) + 1 + Len(WriteZInt(MsgExts[k].value))

\* what follows the chain
AfterChain == IF IsEnvelopeMsg THEN WriteDeclareBody(msg.body) ELSE <<>>

\* C12: the envelope, DeclareSubscriber and DeclareQueryable writers put
\* after the fixed fields exactly the extensions that differ from their
\* default, QoS before Timestamp, each with its own id and value and with
\* the continuation bit set exactly when another extension follows it; the
\* body (or the end of the buffer) comes right after the last one.
C12_WrittenChain ==
    WroteWithExts =>
        /\ Len(buf) = ChainStart + ExtsLen(Len(MsgExts)) + Len(AfterChain)
        /\ \A i \in 1..Len(MsgExts) :
              /\ Eid(buf[ChainStart + ExtsLen(i - 1) + 1]) = MsgExts[i].id
              /\ HasFlag(buf[ChainStart + ExtsLen(i - 1) + 1], EXT_FLAG_Z)
                     <=> i < Len(MsgExts)
              /\ SubSeq(buf, ChainStart + ExtsLen(i - 1) + 2, ChainStart + ExtsLen(i))
                     = WriteZInt(MsgExts[i].value)
        /\ SubSeq(buf, ChainStart + ExtsLen(Len(MsgExts)) + 1, Len(buf)) = AfterChain

C12_Witness ==
    /\ pc = "written" /\ IsEnvelopeMsg
    /\ msg.ext_qos # QoSDefault /\ msg.ext_tstamp # NoTimestamp
    /\ Eid(buf[2]) = QoS_ID /\ HasFlag(buf[2], EXT_FLAG_Z)
    /\ Eid(buf[4]) = Timestamp_ID /\ ~HasFlag(buf[4], EXT_FLAG_Z)
    /\ Len(buf) = 5 + Len(WriteDeclareBody(msg.body))

(***************************************************************************)
(* Properties of the Undeclare* kinds, checked under Spec                  *)
(***************************************************************************)
UndeclareMids == {U_KEYEXPR, U_SUBSCRIBER, U_QUERYABLE, U_TOKEN}
UndeclareKinds ==
    {"UndeclareKeyExpr", "UndeclareSubscriber", "UndeclareQueryable", "UndeclareToken"}

\* the reader of an Undeclare* kind, or the DeclareBody reader, was applied
\* to a peer-built buffer of that kind
UndeclareRead ==
    /\ pc = "read" /\ IsCraft /\ craft.mid \in UndeclareMids
    /\ dec = "DeclareBody" \/ (dec # "DeclareBody" /\ ExpectedMid(dec) = craft.mid)

ChainSkippable == \A i \in 1..Len(craft.chain) : ~craft.chain[i].mandatory

\* C13: an Undeclare* reader returns a value of its kind holding the id
\* alone; with Z clear it stops right after the id, whatever follows; with Z
\* set and a chain of skippable extensions it stops at the end of the
\* chain.  An Undeclare* writer writes the bare type id as header, Z, N and
\* M clear, and the id.
C13_Undeclare ==
    /\ (UndeclareRead /\ ~craft.z)
          => /\ res.ok /\ DOMAIN res.val = {"kind", "id"}
             /\ res.val.kind \in UndeclareKinds /\ res.val.id = 200
             /\ res.pos = 1 + Len(WriteZInt(200))
    /\ (UndeclareRead /\ craft.z /\ craft.chain # <<>> /\ ChainSkippable)
          => /\ res.ok /\ DOMAIN res.val = {"kind", "id"}
             /\ res.val.kind \in UndeclareKinds /\ res.val.id = 200
             /\ res.pos = Len(buf)
    /\ (pc # "init" /\ IsBodyMsg /\ msg.kind \in UndeclareKinds)
          => /\ buf[1] = MsgMid
             /\ ~HasFlag(buf[1], FlagZ) /\ ~HasFlag(buf[1], FlagN)
             /\ ~HasFlag(buf[1], FlagM)
             /\ buf = <<MsgMid>> \o WriteZInt(msg.id)

C13_Witness ==
    /\ UndeclareRead /\ dec = "UndeclareToken" /\ craft.z
    /\ Len(craft.chain) = 2 /\ ChainSkippable
    /\ craft.chain[1].enc = ENC_ZBUF /\ craft.chain[2].enc = ENC_UNIT
    /\ res.ok /\ res.val = [kind |-> "UndeclareToken", id |-> 200]
    /\ res.pos = Len(buf)

(***************************************************************************)
(* Further properties of the accept Init stage, checked under SpecAccept   *)
(***************************************************************************)
\* the InitSyn read on l asks for nothing the local configuration lacks
CompatibleResolution(l) == rx[l].messages[1].resolution <= ManagerConfig.resolution
CompatibleBatchSize(l) == rx[l].messages[1].batch_size <= ManagerConfig.batch_size
CompatibleQos(l) == rx[l].messages[1].qos # <<>> => ManagerConfig.is_qos

\* C14 as stated: an Output is returned only for an InitSyn compatible with
\* the local configuration on version, resolution, batch size and QoS.
C14_AllValidated ==
    \A l \in Links :
        ret[l].ok => /\ rx[l].messages[1].version = version
                     /\ CompatibleResolution(l)
                     /\ CompatibleBatchSize(l)
                     /\ CompatibleQos(l)

\* C14, amended: the stage validates the InitSyn on version alone.  A
\* single InitSyn is answered with an Output exactly when its version is the
\* configured one, whatever its resolution, batch size and QoS, and these
\* reach the Output as sent; otherwise with a rejection carrying INVALID.
C14_VersionOnly ==
    \A l \in Links :
        (Returned(l) /\ RxInitSyn(l)) =>
            IF rx[l].messages[1].version = version
            THEN /\ stage[l] = "Output" /\ ret[l].ok
                 /\ ret[l].output.resolution = rx[l].messages[1].resolution
                 /\ ret[l].output.batch_size = rx[l].messages[1].batch_size
                 /\ ret[l].output.is_qos = (rx[l].messages[1].qos # <<>>)
            ELSE RejectedInvalid(l)

C14_Witness ==
    \E l \in Links :
        /\ Returned(l) /\ RxInitSyn(l) /\ ret[l].ok
        /\ ~CompatibleResolution(l) /\ ~CompatibleBatchSize(l) /\ ~CompatibleQos(l)
        /\ ret[l].output.resolution > ManagerConfig.resolution

\* C15: the whatami, zid, resolution and batch_size of an Output are those
\* of the one InitSyn the read yielded, not those of the local
\* configuration.
C15_OutputFields ==
    \A l \in Links :
        ret[l].ok =>
            /\ RxInitSyn(l)
            /\ ret[l].output.whatami = rx[l].messages[1].whatami
            /\ ret[l].output.zid = rx[l].messages[1].zid
            /\ ret[l].output.resolution = rx[l].messages[1].resolution
            /\ ret[l].output.batch_size = rx[l].messages[1].batch_size

C15_Witness ==
    \E l \in Links :
        /\ ret[l].ok
        /\ ret[l].output.whatami = "Client" /\ ret[l].output.zid = 2
        /\ ret[l].output.resolution = 3 /\ ret[l].output.batch_size = 65535
        /\ ret[l].output.batch_size # ManagerConfig.batch_size
        /\ rx[l].messages[1].batch_size = 65535

\* recv has returned on l with one of its two outcomes, after one link read
Terminal(l) ==
    /\ reads[l] = 1
    /\ \/ stage[l] = "Output" /\ ret[l].ok
       \/ stage[l] = "Rejected" /\ ~ret[l].ok /\ ret[l].reason = <<INVALID>>

\* C16: a run of the stage reads the link once and returns an Output or a
\* rejection; once it has returned, whatever the peer sends afterwards, the
\* outcome stays, the link is not read again and a rejection never turns
\* into an Output; a read that yielded more than the one InitSyn gives no
\* Output, and nothing of it is kept.
C16_OneReadNoRetry ==
    /\ [](\A l \in Links :
            /\ ~Returned(l) => (reads[l] = 0 /\ ret[l] = NoRet)
            /\ Returned(l) => Terminal(l)
            /\ stage[l] = "Output" => RxSingle(l))
    /\ [][\A l \in Links :
            Returned(l) => /\ stage'[l] = stage[l]
                           /\ ret'[l] = ret[l]
                           /\ rx'[l] = rx[l]
                           /\ reads'[l] = reads[l]]_vars

C16_Witness ==
    \E l \in Links :
        /\ stage[l] = "Rejected" /\ reads[l] = 1
        /\ rx[l].st = "msgs" /\ Len(rx[l].messages) = 2
        /\ wire[l] \in Resends
        /\ wire[l].messages[1].version = version

\* the read on l yielded one InitSyn of the configured version
WellFormed(l) == RxInitSyn(l) /\ rx[l].messages[1].version = version

\* C17: with the links running the stage in any interleaving, the outcome
\* on a link is an Output exactly when that link's own read yielded one
\* InitSyn of the configured version, and a rejection with INVALID
\* otherwise, whatever happened on the other links; a step that returns on
\* one link changes nothing of another link; no step changes the
\* configured version.
C17_LinkIndependence ==
    /\ [](\A l \in Links :
            Returned(l) => /\ ret[l].ok <=> WellFormed(l)
                           /\ ~ret[l].ok => RejectedInvalid(l))
    /\ [][/\ version' = version
          /\ \A l, k \in Links :
                (k # l /\ ret'[l] # ret[l])
                    => /\ stage'[k] = stage[k] /\ ret'[k] = ret[k]
                       /\ rx'[k] = rx[k] /\ reads'[k] = reads[k]
                       /\ wire'[k] = wire[k]]_vars

C17_Witness ==
    \E l, k \in Links :
        /\ k # l
        /\ stage[l] = "Rejected" /\ rx[l].st = "msgs" /\ RxSingle(l)
        /\ rx[l].messages[1].body = "KeepAlive"
        /\ stage[k] = "Output" /\ WellFormed(k) /\ ret[k].ok
        /\ wire[l] # Idle

(***************************************************************************)
(* Properties of the DeclareBody and envelope readers, checked under Spec  *)
(***************************************************************************)
\* the reader of the one kind a type id names, and the kind's name
KindDecoder(mid) == CHOOSE d \in Decoders \ {"DeclareBody"} : ExpectedMid(d) = mid

\* the DeclareBody reader was applied to a peer-built buffer
BodyDispatched == pc = "read" /\ IsCraft /\ dec = "DeclareBody"

\* C18: the DeclareBody reader, on a header with one of the eight known type
\* ids, returns what the reader of that kind returns on the same bytes: a
\* value of that kind, its suffix and mapping as flags N and M of the header
\* say; on any other type id it returns an error, no value, after the
\* header byte.
C18_Dispatch ==
    /\ (BodyDispatched /\ craft.mid \in BodyMids)
          => /\ res = Decode(KindDecoder(craft.mid), buf)
             /\ res.ok => /\ res.val.kind = KindDecoder(craft.mid)
                          /\ "wire_expr" \in DOMAIN res.val
                                => (HasSuffix(res.val.wire_expr) <=> craft.nm)
                          /\ "mapping" \in DOMAIN res.val
                                => (res.val.mapping = "Sender" <=> craft.nm)
    /\ (BodyDispatched /\ craft.mid \notin BodyMids)
          => (~res.ok /\ res.val = NoVal /\ res.pos = 1)

C18_Witness ==
    /\ BodyDispatched /\ craft.mid = D_TOKEN /\ craft.nm /\ ~craft.z
    /\ res.ok
    /\ res.val = [kind |-> "DeclareToken", id |-> 200, mapping |-> "Sender",
                  wire_expr |-> [scope |-> 3, suffix |-> <<100, 47>>]]

\* the envelope reader was applied to a written envelope, or to a peer-built
\* one
EnvelopeRead == pc = "read" /\ IsEnvelopeMsg /\ dec = "Declare"
CraftedEnvelopeRead ==
    pc = "read" /\ IsCraft /\ craft.mid = DECLARE /\ dec = "Declare"

\* every extension of the peer-built chain has this id and is skippable
ChainOnlyOf(id) ==
    \A i \in 1..Len(craft.chain) : craft.chain[i].id = id /\ ~craft.chain[i].mandatory

\* C19: reading a written Declare x yields x and consumes the buffer, the
\* body being the one DeclareBody that starts right after the chain; an
\* envelope without a QoS extension decodes to the default QoS, one without
\* a timestamp extension to no timestamp.
C19_EnvelopeRoundTrip ==
    /\ EnvelopeRead
          => /\ res.ok /\ res.val = msg /\ res.pos = Len(buf)
             /\ ReadDeclareBody(buf, ChainStart + ExtsLen(Len(MsgExts)))
                    = Ok(msg.body, Len(buf))
    /\ (CraftedEnvelopeRead /\ ~craft.z /\ craft.chain = <<>>)
          => /\ res.ok /\ res.val.body = CraftBody
             /\ res.val.ext_qos = QoSDefault /\ res.val.ext_tstamp = NoTimestamp
    /\ (CraftedEnvelopeRead /\ craft.z /\ craft.chain # <<>> /\ ChainOnlyOf(Timestamp_ID))
          => (res.ok /\ res.val.ext_qos = QoSDefault /\ res.val.body = CraftBody)
    /\ (CraftedEnvelopeRead /\ craft.z /\ craft.chain # <<>> /\ ChainOnlyOf(QoS_ID))
          => (res.ok /\ res.val.ext_tstamp = NoTimestamp /\ res.val.body = CraftBody)

C19_Witness ==
    /\ EnvelopeRead
    /\ msg.ext_qos = QoSDefault /\ msg.ext_tstamp = <<7>>
    /\ msg.body.kind = "DeclareSubscriber"
    /\ msg.body.ext_info # SubscriberInfoDefault
    /\ msg.body.mapping = "Sender" /\ HasSuffix(msg.body.wire_expr)
    /\ res.ok /\ res.val = msg /\ res.pos = Len(buf)

(***************************************************************************)
(* Rejections of the accept Init stage, checked under SpecAccept           *)
(***************************************************************************)
\* C20: when the link read fails, recv returns the read error with reason
\* INVALID and no Output, none of the checks on the messages having given
\* the cause; every rejection recv returns, whatever its cause, carries
\* reason INVALID and never no reason.
C20_RejectionReason ==
    \A l \in Links :
        /\ (Returned(l) /\ rx[l].st = "err")
              => /\ stage[l] = "Rejected" /\ ~ret[l].ok
                 /\ ret[l].cause = "read"
                 /\ ret[l].reason = <<INVALID>>
        /\ (Returned(l) /\ ~ret[l].ok)
              => /\ ret[l].reason # <<>> /\ ret[l].reason = <<INVALID>>
                 /\ ret[l].cause \in {"read", "multiple", "not InitSyn", "version"}
                 /\ ret[l].cause = "read" <=> rx[l].st = "err"

C20_Witness ==
    /\ \E l \in Links :
          /\ Returned(l) /\ rx[l].st = "err"
          /\ ret[l] = [ok |-> FALSE, cause |-> "read", reason |-> <<INVALID>>]
    /\ \E l \in Links :
          /\ Returned(l) /\ ~ret[l].ok
          /\ ret[l].cause = "version" /\ ret[l].reason = <<INVALID>>

====
